---------------------------- MODULE Spec2Model ----------------------------
(***************************************************************************)
(* Model of the enterprise data generator of NeuroQuantumDB                *)
(* (src/test_data_generator.py, class EnterpriseDataGenerator).            *)
(*                                                                         *)
(* The state is the generator object: its data containers, the list a     *)
(* running generate_* method is building, that method's loop counter, and  *)
(* the position of the caller.  Every generate_* method is three actions:  *)
(* Begin (the code before the loop), Step (one loop iteration, with every  *)
(* outcome of its random draws) and End (the assignment to self.* and the  *)
(* return).  An exception raised inside a loop is a Fail action: it leaves *)
(* the method without the assignment to self.*.                            *)
(*                                                                         *)
(* Identifiers: f"DEPT_{n:03d}", f"EMP_{n:04d}", f"DOC_{n:06d}" are        *)
(* injective in n; they are the tuples <<"DEPT", n>>, <<"EMP", n>>,        *)
(* <<"DOC", n>>.  Python's None is the empty tuple in a field that holds    *)
(* identifiers and the string "None" in a field that holds strings.  Names *)
(* with umlauts are transliterated.  Record fields that no decision of the *)
(* generator reads (budget, location, names, timestamps, hashes, ...) are  *)
(* left out.                                                               *)
(***************************************************************************)
EXTENDS Integers, Sequences, FiniteSets, TLC

(***************************************************************************)
(* Bounds of the model.  The module-level targets TOTAL_* of the source    *)
(* (800 people, 25 units, 150000 documents, ...) are the configuration of  *)
(* a run; a run of the model draws them from these ranges.                 *)
(***************************************************************************)
MaxUnits == 6            \* units of a run that builds the organisation only
MaxPeople == 4           \* people of a run that needs all three role tiers
SoloUnits == 1           \* units of a run with all three role tiers and documents
TeamUnits == 2           \* units of a run that goes on to documents
TeamPeople == 2          \* people of such a run
MaxDocuments == 1
MaxAccessLogs == 1
MaxSecurityEvents == 1
RunPeople == 1           \* people of a run of generate_all_data
CatalogExcess == 1       \* units requested beyond the name catalog
SecurityPeople == 2      \* people of a run that generates incidents only
TableDocuments == 2      \* documents of a run with one unit and one person
LowUnits == 6            \* units of an organisation that reaches the unit Produktion
LowPeople == 19          \* people of that organisation: the last one is staff
BATCH_SIZE == 2          \* records of one batch (1000 in the source)
MaxFileRecords == 3      \* records of a dataset file read by the loader

None == <<>>
NoneStr == "None"
DeptId(n) == <<"DEPT", n>>
EmpId(n) == <<"EMP", n>>
DocId(n) == <<"DOC", n>>

Range(seq) == {seq[k] : k \in DOMAIN seq}

\* "for i in range(total)": whether the loop has an iteration left after
\* idx of them.
InRangeInclusive(idx, total) == idx <= total
InRange(idx, total) == idx < total

Min(a, b) == IF a < b THEN a ELSE b
Max(a, b) == IF a > b THEN a ELSE b

clearance_levels ==
    <<"OEFFENTLICH", "INTERN", "VERTRAULICH", "GEHEIM", "STRENG_GEHEIM">>

\* clearance_levels.index(level): the 0-based ordinal of a level.
LevelIndex(level) ==
    (CHOOSE k \in 1..Len(clearance_levels) : clearance_levels[k] = level) - 1

department_names ==
    <<"Geschaeftsfuehrung", "Finanzen_Controlling", "Personal_HR", "IT_Digitalisierung",
      "Forschung_Entwicklung", "Produktion", "Qualitaetssicherung", "Vertrieb",
      "Marketing", "Einkauf", "Logistik", "Kundendienst", "Recht_Compliance",
      "Sicherheit", "Facility_Management", "Business_Intelligence", "Projektmanagement",
      "Risikomanagement", "Interne_Revision", "Kommunikation_PR", "Umwelt_Nachhaltigkeit",
      "Innovation_Lab", "Datenanalyse", "Cybersecurity", "Change_Management">>

document_types ==
    <<"Vertraege", "Finanzberichte", "Personalakten", "Technische_Spezifikationen",
      "Strategische_Plaene", "Compliance_Dokumente", "Forschung_Entwicklung",
      "Kundenakten", "Lieferantenvertraege", "Sicherheitsrichtlinien">>

VARIABLES
    TOTAL_DEPARTMENTS,      \* configured number of units
    TOTAL_EMPLOYEES,        \* configured number of people
    TOTAL_DOCUMENTS,        \* configured number of documents
    TOTAL_ACCESS_LOGS,      \* configured number of access events
    TOTAL_SECURITY_EVENTS,  \* configured number of incidents
    departments,            \* self.departments
    employees,              \* self.employees
    documents,              \* self.documents
    access_logs,            \* self.access_logs
    security_events,        \* self.security_events
    permissions,            \* what generate_document_permissions returned
    cross_samples,          \* cross_dept_employees of each document that drew one
    files,                  \* the dataset files written so far
    stats,                  \* what generate_all_data returned
    building,               \* the local list of the running method
    i,                      \* the running method's loop counter (iterations done)
    pc,                     \* where the caller is
    returned,               \* the methods that have returned, in order
    raised,                 \* the exception that ended the run, or "None"
    api_key,                \* self.api_key, or "None"
    load_pc,                \* where load_data_to_database is
    dataset_i,              \* position of the loader in its datasets list
    data,                   \* the records of the dataset file being loaded
    batch_start,            \* the loader's loop variable i
    load_success,           \* the loader's local flag
    opened,                 \* the dataset files the loader tried to read
    posted,                 \* the requests the loader sent to /data/load
    failed_batches,         \* the requests that did not get HTTP 200
    load_result,            \* what load_data_to_database returned, or "None"
    data_files,             \* the CSV files in the data directory
    csv_written,            \* the files generate_all has written in this run
    suite_pc,               \* where run_full_suite is
    started,                \* the steps run_full_suite has started, in order
    reported,               \* what the steps returned, in order
    exit_code               \* what run_full_suite returned, or None

totals == <<TOTAL_DEPARTMENTS, TOTAL_EMPLOYEES, TOTAL_DOCUMENTS,
            TOTAL_ACCESS_LOGS, TOTAL_SECURITY_EVENTS>>
loading == <<api_key, load_pc, dataset_i, data, batch_start, load_success,
             opened, posted, failed_batches, load_result>>
suite == <<data_files, csv_written, suite_pc, started, reported, exit_code>>
\* What no method of the generator assigns.
config == <<totals, loading, suite>>
later == <<documents, access_logs, security_events>>
containers == <<departments, employees, later>>
outputs == <<permissions, cross_samples, files, stats>>
vars == <<config, containers, outputs, building, i, pc, returned, raised>>

---------------------------------------------------------------------------
(* generate_departments *)

\* dept_name = self.department_names[i]   (i is 0-based)
DeptNameRepeated(idx) == department_names[1]
DeptName(idx) == department_names[idx + 1]

\* "parent_department": "DEPT_001" if i > 0 and random.random() < 0.3 else None
ParentChoices(idx) == IF idx > 0 THEN {DeptId(1), None} ELSE {None}

\* The levels the if/elif chain can give a unit of this name.
DeptLevelChoicesTopOrDrawn(dept_name) ==
    IF dept_name \in {"Geschaeftsfuehrung", "Sicherheit", "Cybersecurity", "Recht_Compliance"}
    THEN {"STRENG_GEHEIM"}
    ELSE {"INTERN", "VERTRAULICH"}
DeptLevelChoices(dept_name) ==
    IF dept_name \in {"Geschaeftsfuehrung", "Sicherheit", "Cybersecurity", "Recht_Compliance"}
    THEN {"STRENG_GEHEIM"}
    ELSE IF dept_name \in {"Finanzen_Controlling", "Personal_HR", "Interne_Revision"}
    THEN {"GEHEIM"}
    ELSE IF dept_name \in {"Forschung_Entwicklung", "IT_Digitalisierung", "Risikomanagement"}
    THEN {"VERTRAULICH"}
    ELSE {"INTERN", "VERTRAULICH"}

BeginDepartments ==
    /\ pc = "call_departments"
    /\ building' = <<>>
    /\ i' = 0
    /\ pc' = "departments"
    /\ UNCHANGED <<config, containers, outputs, returned, raised>>

StepDepartments ==
    /\ pc = "departments"
    /\ InRange(i, TOTAL_DEPARTMENTS)
    /\ i + 1 \in DOMAIN department_names
    /\ \E level \in DeptLevelChoices(DeptName(i)) :
          building' = Append(building,
              [id |-> DeptId(i + 1),
               name |-> DeptName(i),
               security_level |-> level,
               manager_id |-> None])
    /\ i' = i + 1
    /\ UNCHANGED <<config, containers, outputs, pc, returned, raised>>

\* self.department_names[i] past the end of the catalog raises IndexError;
\* the local list is dropped and self.departments is not assigned.
FailDepartmentsKeepingPartial ==
    /\ pc = "departments"
    /\ InRange(i, TOTAL_DEPARTMENTS)
    /\ i + 1 \notin DOMAIN department_names
    /\ departments' = building
    /\ pc' = "error"
    /\ raised' = "IndexError"
    /\ UNCHANGED <<config, employees, later, outputs, building, i, returned>>
FailDepartments ==
    /\ pc = "departments"
    /\ InRange(i, TOTAL_DEPARTMENTS)
    /\ i + 1 \notin DOMAIN department_names
    /\ building' = <<>>
    /\ pc' = "error"
    /\ raised' = "IndexError"
    /\ UNCHANGED <<config, containers, outputs, i, returned>>

EndDepartments(next) ==
    /\ pc = "departments"
    /\ ~InRange(i, TOTAL_DEPARTMENTS)
    /\ departments' = building
    /\ returned' = Append(returned, "generate_departments")
    /\ pc' = next
    /\ UNCHANGED <<config, employees, later, outputs, building, i, raised>>

---------------------------------------------------------------------------
(* generate_employees *)

LeadRoles == {"Abteilungsleiter"}
SeniorRoles == {"Senior_Spezialist", "Teamleiter", "Projektleiter"}
StaffRoles == {"Spezialist", "Sachbearbeiter", "Analyst", "Coordinator"}

\* The roles the position-based if/elif chain can give person idx (0-based)
\* when there are total_departments units.
RoleChoicesShifted(idx, total_departments) ==
    IF idx <= total_departments THEN LeadRoles
    ELSE IF idx <= total_departments * 3 THEN SeniorRoles
    ELSE StaffRoles
RoleChoices(idx, total_departments) ==
    IF idx < total_departments THEN LeadRoles
    ELSE IF idx < total_departments * 3 THEN SeniorRoles
    ELSE StaffRoles

\* The outcomes of the "random.random() < 0.3" roll, drawn only in the else branch.
LoweredChoices(idx, total_departments) ==
    IF idx < total_departments * 3 THEN {FALSE} ELSE BOOLEAN

\* security_clearance, given the unit's level and the outcome of the roll.
ClearanceTwoStepsBelow(dept_level, lowered) ==
    IF lowered
    THEN clearance_levels[Max(0, LevelIndex(dept_level) - 2) + 1]
    ELSE dept_level
ClearanceTopUnlessLowered(dept_level, lowered) ==
    IF lowered
    THEN clearance_levels[Max(0, LevelIndex(dept_level) - 1) + 1]
    ELSE clearance_levels[Len(clearance_levels)]
Clearance(dept_level, lowered) ==
    IF lowered
    THEN clearance_levels[Max(0, LevelIndex(dept_level) - 1) + 1]
    ELSE dept_level

\* "manager_id": department["manager_id"] if emp_id != department["manager_id"]
\* else None
ManagerIdOfUnit(emp_id, department) == department.manager_id
ManagerId(emp_id, department) ==
    IF emp_id # department.manager_id THEN department.manager_id ELSE None

\* The loop "self.departments[i]['manager_id'] = f'EMP_{i+1:04d}'".
BeginEmployeesResettingLevel ==
    /\ pc = "call_employees"
    /\ departments' = [k \in DOMAIN departments |->
                          [departments[k] EXCEPT !.manager_id = EmpId(k),
                                                 !.security_level = "INTERN"]]
    /\ building' = <<>>
    /\ i' = 0
    /\ pc' = "employees"
    /\ UNCHANGED <<config, employees, later, outputs, returned, raised>>
BeginEmployees ==
    /\ pc = "call_employees"
    /\ departments' = [k \in DOMAIN departments |->
                          [departments[k] EXCEPT !.manager_id = EmpId(k)]]
    /\ building' = <<>>
    /\ i' = 0
    /\ pc' = "employees"
    /\ UNCHANGED <<config, employees, later, outputs, returned, raised>>

StepEmployees ==
    /\ pc = "employees"
    /\ InRange(i, TOTAL_EMPLOYEES)
    /\ \E d \in DOMAIN departments :
       \E role \in RoleChoices(i, TOTAL_DEPARTMENTS) :
       \E lowered \in LoweredChoices(i, TOTAL_DEPARTMENTS) :
          LET department == departments[d]
              emp_id == EmpId(i + 1)
          IN  building' = Append(building,
                  [id |-> emp_id,
                   department_id |-> department.id,
                   role |-> role,
                   security_clearance |-> Clearance(department.security_level, lowered),
                   manager_id |-> ManagerId(emp_id, department)])
    /\ i' = i + 1
    /\ UNCHANGED <<config, containers, outputs, pc, returned, raised>>

\* random.choice(self.departments) of an empty list raises IndexError.
FailEmployees ==
    /\ pc = "employees"
    /\ InRange(i, TOTAL_EMPLOYEES)
    /\ departments = <<>>
    /\ building' = <<>>
    /\ pc' = "error"
    /\ raised' = "IndexError"
    /\ UNCHANGED <<config, containers, outputs, i, returned>>

EndEmployees(next) ==
    /\ pc = "employees"
    /\ ~InRange(i, TOTAL_EMPLOYEES)
    /\ employees' = building
    /\ returned' = Append(returned, "generate_employees")
    /\ pc' = next
    /\ UNCHANGED <<config, departments, later, outputs, building, i, raised>>

---------------------------------------------------------------------------
(* generate_documents *)

\* The levels the if/elif chain on the document type can draw from.
DocLevelChoicesWithPublic(doc_type) ==
    IF doc_type \in {"Personalakten", "Finanzberichte", "Strategische_Plaene"}
    THEN {"GEHEIM", "STRENG_GEHEIM"}
    ELSE IF doc_type \in {"Vertraege", "Compliance_Dokumente", "Sicherheitsrichtlinien"}
    THEN {"VERTRAULICH", "GEHEIM"}
    ELSE IF doc_type \in {"Technische_Spezifikationen", "Forschung_Entwicklung"}
    THEN {"VERTRAULICH", "GEHEIM", "STRENG_GEHEIM"}
    ELSE {"OEFFENTLICH", "INTERN"}
DocLevelChoicesAny(doc_type) == {"INTERN", "VERTRAULICH", "GEHEIM", "STRENG_GEHEIM"}
DocLevelChoices(doc_type) ==
    IF doc_type \in {"Personalakten", "Finanzberichte", "Strategische_Plaene"}
    THEN {"GEHEIM", "STRENG_GEHEIM"}
    ELSE IF doc_type \in {"Vertraege", "Compliance_Dokumente", "Sicherheitsrichtlinien"}
    THEN {"VERTRAULICH", "GEHEIM"}
    ELSE IF doc_type \in {"Technische_Spezifikationen", "Forschung_Entwicklung"}
    THEN {"VERTRAULICH", "GEHEIM", "STRENG_GEHEIM"}
    ELSE {"INTERN", "VERTRAULICH"}

\* owner_dept: the creator's unit (roll < 0.7) or random.choice(self.departments).
OwnerChoices(creator) ==
    {d \in Range(departments) : d.id = creator.department_id} \cup Range(departments)

BeginDocumentsBeforePeople ==
    /\ pc \in {"call_employees", "call_documents"}
    /\ building' = <<>>
    /\ i' = 0
    /\ pc' = "documents"
    /\ UNCHANGED <<config, containers, outputs, returned, raised>>
BeginDocuments ==
    /\ pc = "call_documents"
    /\ building' = <<>>
    /\ i' = 0
    /\ pc' = "documents"
    /\ UNCHANGED <<config, containers, outputs, returned, raised>>

StepDocuments ==
    /\ pc = "documents"
    /\ InRange(i, TOTAL_DOCUMENTS)
    /\ \E doc_type \in Range(document_types) :
       \E security_level \in DocLevelChoices(doc_type) :
       \E creator \in Range(employees) :
       \E owner_dept \in OwnerChoices(creator) :
          building' = Append(building,
              [id |-> DocId(i + 1),
               document_type |-> doc_type,
               security_classification |-> security_level,
               owner_department_id |-> owner_dept.id,
               creator_employee_id |-> creator.id])
    /\ i' = i + 1
    /\ UNCHANGED <<config, containers, outputs, pc, returned, raised>>

\* random.choice(self.employees) of an empty list raises IndexError.
FailDocuments ==
    /\ pc = "documents"
    /\ InRange(i, TOTAL_DOCUMENTS)
    /\ employees = <<>>
    /\ building' = <<>>
    /\ pc' = "error"
    /\ raised' = "IndexError"
    /\ UNCHANGED <<config, containers, outputs, i, returned>>

EndDocuments(next) ==
    /\ pc = "documents"
    /\ ~InRange(i, TOTAL_DOCUMENTS)
    /\ documents' = building
    /\ returned' = Append(returned, "generate_documents")
    /\ pc' = next
    /\ UNCHANGED <<config, departments, employees, access_logs, security_events,
                   outputs, building, i, raised>>

---------------------------------------------------------------------------
(* generate_access_logs *)

\* emp_level >= doc_level
Eligible(emp, doc) ==
    LevelIndex(emp.security_clearance) >= LevelIndex(doc.security_classification)

\* access_granted = emp_level >= doc_level and random.random() < 0.9:
\* the roll is drawn only for an eligible person.
AccessGrantedChoicesByRollOnly(employee, document) == BOOLEAN
AccessGrantedChoicesInverted(employee, document) ==
    IF Eligible(employee, document) THEN {FALSE} ELSE BOOLEAN
AccessGrantedChoices(employee, document) ==
    IF Eligible(employee, document) THEN BOOLEAN ELSE {FALSE}

DenyReasons ==
    {"INSUFFICIENT_CLEARANCE", "DOCUMENT_NOT_FOUND", "PERMISSION_EXPIRED",
     "ACCOUNT_LOCKED", "OUTSIDE_BUSINESS_HOURS"}

Actions == {"VIEW", "DOWNLOAD", "EDIT", "DELETE", "SHARE", "PRINT", "COPY"}

\* The inner condition of "Edit/Delete nur bei entsprechenden Berechtigungen".
MutateRefusedInverted(employee, document) ==
    /\ employee.role \notin {"Abteilungsleiter", "Teamleiter", "Projektleiter"}
    /\ employee.id = document.creator_employee_id
MutateRefused(employee, document) ==
    /\ employee.role \notin {"Abteilungsleiter", "Teamleiter", "Projektleiter"}
    /\ employee.id # document.creator_employee_id

\* result and reason of one event, given the draws: the if/else on
\* access_granted, then the override for EDIT and DELETE.
OutcomeOverridingDenials(employee, document, access_granted, deny_reason, action) ==
    LET first == IF ~access_granted
                 THEN [result |-> "ACCESS_DENIED", reason |-> deny_reason]
                 ELSE [result |-> "SUCCESS", reason |-> NoneStr]
    IN  IF /\ action \in {"EDIT", "DELETE"}
           /\ MutateRefused(employee, document)
        THEN [result |-> "ACCESS_DENIED", reason |-> "INSUFFICIENT_PERMISSIONS"]
        ELSE first
Outcome(employee, document, access_granted, deny_reason, action) ==
    LET first == IF ~access_granted
                 THEN [result |-> "ACCESS_DENIED", reason |-> deny_reason]
                 ELSE [result |-> "SUCCESS", reason |-> NoneStr]
    IN  IF /\ action \in {"EDIT", "DELETE"}
           /\ access_granted
           /\ MutateRefused(employee, document)
        THEN [result |-> "ACCESS_DENIED", reason |-> "INSUFFICIENT_PERMISSIONS"]
        ELSE first

\* "duration_seconds": random.randint(1, 3600) if result == "SUCCESS" else 0
\* (the two ends of the range stand for the draw).
DurationChoicesFromZero(result) == IF result = "SUCCESS" THEN {0, 3600} ELSE {0}
DurationChoices(result) == IF result = "SUCCESS" THEN {1, 3600} ELSE {0}

\* "bytes_transferred": random.randint(1024, document["file_size_bytes"])
\* if action == "DOWNLOAD" and result == "SUCCESS" else 0.  file_size_bytes
\* is itself a draw from 1024..104857600, so the range is never empty; the
\* smallest and the largest size stand for the draw.
BytesChoices(action, result) ==
    IF action = "DOWNLOAD" /\ result = "SUCCESS" THEN {1024, 104857600} ELSE {0}

BeginAccessLogs ==
    /\ pc = "call_access_logs"
    /\ building' = <<>>
    /\ i' = 0
    /\ pc' = "access_logs"
    /\ UNCHANGED <<config, containers, outputs, returned, raised>>

StepAccessLogs ==
    /\ pc = "access_logs"
    /\ InRange(i, TOTAL_ACCESS_LOGS)
    /\ \E document \in Range(documents) :
       \E employee \in Range(employees) :
       \E access_granted \in AccessGrantedChoices(employee, document) :
       \E deny_reason \in (IF access_granted THEN {NoneStr} ELSE DenyReasons) :
       \E action \in Actions :
          LET out == Outcome(employee, document, access_granted, deny_reason, action)
          IN  \E duration_seconds \in DurationChoices(out.result) :
              \E bytes_transferred \in BytesChoices(action, out.result) :
                 building' = Append(building,
                     [id |-> <<"LOG", i + 1>>,
                      document_id |-> document.id,
                      employee_id |-> employee.id,
                      action |-> action,
                      result |-> out.result,
                      reason |-> out.reason,
                      duration_seconds |-> duration_seconds,
                      bytes_transferred |-> bytes_transferred])
    /\ i' = i + 1
    /\ UNCHANGED <<config, containers, outputs, pc, returned, raised>>

\* random.choice of an empty self.documents or self.employees raises IndexError.
FailAccessLogsSwallowed ==
    /\ pc = "access_logs"
    /\ InRange(i, TOTAL_ACCESS_LOGS)
    /\ (documents = <<>> \/ employees = <<>>)
    /\ building' = <<>>
    /\ pc' = "call_security_events"
    /\ raised' = "IndexError"
    /\ UNCHANGED <<config, containers, outputs, i, returned>>
FailAccessLogs ==
    /\ pc = "access_logs"
    /\ InRange(i, TOTAL_ACCESS_LOGS)
    /\ (documents = <<>> \/ employees = <<>>)
    /\ building' = <<>>
    /\ pc' = "error"
    /\ raised' = "IndexError"
    /\ UNCHANGED <<config, containers, outputs, i, returned>>

EndAccessLogs(next) ==
    /\ pc = "access_logs"
    /\ ~InRange(i, TOTAL_ACCESS_LOGS)
    /\ access_logs' = building
    /\ returned' = Append(returned, "generate_access_logs")
    /\ pc' = next
    /\ UNCHANGED <<config, departments, employees, documents, security_events,
                   outputs, building, i, raised>>

---------------------------------------------------------------------------
(* generate_document_permissions *)

Timestamp == <<"TIMESTAMP">>

\* permission_type of a unit member who passed the roll.
MemberTypeChoices(emp, doc) ==
    IF emp.role \in {"Abteilungsleiter", "Teamleiter", "Projektleiter"}
    THEN {"READ_WRITE", "FULL_ACCESS"}
    ELSE IF emp.id = doc.creator_employee_id
    THEN {"FULL_ACCESS"}
    ELSE {"READ_ONLY"}

\* What the body of "for emp in dept_employees" can append for one member:
\* nothing, or one record (emp_level >= doc_level and random.random() < 0.8).
MemberGrantChoices(emp, doc) ==
    IF Eligible(emp, doc)
    THEN {<<>>} \cup
         {<<[document_id |-> doc.id,
             employee_id |-> emp.id,
             permission_type |-> permission_type,
             granted_by |-> doc.creator_employee_id,
             expires_at |-> expires_at]>> :
            permission_type \in MemberTypeChoices(emp, doc),
            expires_at \in {None, Timestamp}}
    ELSE {<<>>}

\* Every list the loop over the unit's members can append, in their order.
RECURSIVE MemberGrantSeqs(_, _)
MemberGrantSeqs(emps, doc) ==
    IF emps = <<>> THEN {<<>>}
    ELSE {first \o rest : first \in MemberGrantChoices(Head(emps), doc),
                          rest \in MemberGrantSeqs(Tail(emps), doc)}

\* [e for e in self.employees if e["department_id"] == doc["owner_department_id"]]
DeptEmployees(doc) ==
    SelectSeq(employees, LAMBDA e : e.department_id = doc.owner_department_id)

\* [e for e in self.employees if e["department_id"] != doc["owner_department_id"]]
CrossDeptPoolEveryone(doc) == employees
CrossDeptPool(doc) ==
    SelectSeq(employees, LAMBDA e : e.department_id # doc.owner_department_id)

\* k = random.randint(1, min(5, len(pool)))
SampleSizesFromZero(pool_size) == 0..Min(5, pool_size)
SampleSizes(pool_size) == 1..Min(5, pool_size)

\* random.sample(pool, k): the ordered selections of k distinct positions.
Samples(pool, k) ==
    {[n \in 1..k |-> pool[pick[n]]] :
        pick \in {f \in [1..k -> DOMAIN pool] :
                     \A a, b \in 1..k : a # b => f[a] # f[b]}}

\* What "for emp in cross_dept_employees" appends: one expiring READ_ONLY
\* record for every sampled person with emp_level >= doc_level.
RECURSIVE CrossGrants(_, _)
CrossGrants(sample, doc) ==
    IF sample = <<>> THEN <<>>
    ELSE (IF Eligible(Head(sample), doc)
          THEN <<[document_id |-> doc.id,
                  employee_id |-> Head(sample).id,
                  permission_type |-> "READ_ONLY",
                  granted_by |-> doc.creator_employee_id,
                  expires_at |-> Timestamp]>>
          ELSE <<>>) \o CrossGrants(Tail(sample), doc)

\* The "Automatische Berechtigung fuer Ersteller".
CreatorGrantBySelf(doc) ==
    [document_id |-> doc.id,
     employee_id |-> doc.creator_employee_id,
     permission_type |-> "FULL_ACCESS",
     granted_by |-> doc.creator_employee_id,
     expires_at |-> None]
CreatorGrant(doc) ==
    [document_id |-> doc.id,
     employee_id |-> doc.creator_employee_id,
     permission_type |-> "FULL_ACCESS",
     granted_by |-> <<"SYSTEM">>,
     expires_at |-> None]

BeginPermissions ==
    /\ pc = "call_permissions"
    /\ building' = <<>>
    /\ i' = 0
    /\ pc' = "permissions"
    /\ UNCHANGED <<config, containers, outputs, returned, raised>>

\* One iteration of "for doc in self.documents".
StepPermissions ==
    /\ pc = "permissions"
    /\ i < Len(documents)
    /\ LET doc == documents[i + 1]
           pool == CrossDeptPool(doc)
       IN  \E members \in MemberGrantSeqs(DeptEmployees(doc), doc) :
           \E project_based \in BOOLEAN :        \* random.random() < 0.3
              IF project_based
              THEN \E k \in SampleSizes(Len(pool)) :
                   \E cross_dept_employees \in Samples(pool, k) :
                      /\ building' = building \o <<CreatorGrant(doc)>> \o members
                                        \o CrossGrants(cross_dept_employees, doc)
                      /\ cross_samples' = Append(cross_samples,
                            [document_id |-> doc.id,
                             employee_ids |-> [n \in DOMAIN cross_dept_employees |->
                                                 cross_dept_employees[n].id]])
              ELSE /\ building' = building \o <<CreatorGrant(doc)>> \o members
                   /\ UNCHANGED cross_samples
    /\ i' = i + 1
    /\ UNCHANGED <<config, containers, permissions, files, stats, pc, returned, raised>>

\* random.randint(1, 0) raises ValueError: the document drew project-based
\* grants and nobody is outside its owning unit.
FailPermissions ==
    /\ pc = "permissions"
    /\ i < Len(documents)
    /\ SampleSizes(Len(CrossDeptPool(documents[i + 1]))) = {}
    /\ building' = <<>>
    /\ cross_samples' = <<>>
    /\ pc' = "error"
    /\ raised' = "ValueError"
    /\ UNCHANGED <<config, containers, permissions, files, stats, i, returned>>

EndPermissions(next) ==
    /\ pc = "permissions"
    /\ i >= Len(documents)
    /\ permissions' = building
    /\ returned' = Append(returned, "generate_document_permissions")
    /\ pc' = next
    /\ UNCHANGED <<config, containers, cross_samples, files, stats, building, i, raised>>

---------------------------------------------------------------------------
(* generate_security_events *)

event_types ==
    <<"UNAUTHORIZED_ACCESS_ATTEMPT", "MULTIPLE_LOGIN_FAILURES", "PRIVILEGE_ESCALATION",
      "DATA_EXFILTRATION_ATTEMPT", "MALWARE_DETECTED", "PHISHING_ATTEMPT",
      "UNUSUAL_ACCESS_PATTERN", "AFTER_HOURS_ACCESS", "BULK_DOWNLOAD",
      "UNAUTHORIZED_FILE_SHARE", "WEAK_PASSWORD_DETECTED", "ACCOUNT_COMPROMISE">>

SeverityChoices(event_type) ==
    IF event_type \in {"DATA_EXFILTRATION_ATTEMPT", "ACCOUNT_COMPROMISE", "PRIVILEGE_ESCALATION"}
    THEN {"HIGH", "CRITICAL"}
    ELSE IF event_type \in {"UNAUTHORIZED_ACCESS_ATTEMPT", "MALWARE_DETECTED", "PHISHING_ATTEMPT"}
    THEN {"MEDIUM", "HIGH"}
    ELSE {"LOW", "MEDIUM"}

\* The unit number in the literal "DEPT_014" of the assigned_to draw.
SECURITY_DEPT_NUMBER == 14

\* [e["id"] for e in self.employees if e["department_id"] == "DEPT_014"]
SecurityPoolAnyone == {e.id : e \in Range(employees)}
SecurityPoolOrNobody ==
    LET pool == {e.id : e \in {x \in Range(employees) :
                                 x.department_id = DeptId(SECURITY_DEPT_NUMBER)}}
    IN  IF pool = {} THEN {None} ELSE pool
SecurityPool ==
    {e.id : e \in {x \in Range(employees) : x.department_id = DeptId(SECURITY_DEPT_NUMBER)}}

\* random.choice(self.documents)["id"] if random.random() < 0.6 else None
TargetChoices == {d.id : d \in Range(documents)} \cup {None}

BeginSecurityEvents ==
    /\ pc = "call_security_events"
    /\ building' = <<>>
    /\ i' = 0
    /\ pc' = "security_events"
    /\ UNCHANGED <<config, containers, outputs, returned, raised>>

StepSecurityEvents ==
    /\ pc = "security_events"
    /\ InRange(i, TOTAL_SECURITY_EVENTS)
    /\ \E event_type \in Range(event_types) :
       \E severity \in SeverityChoices(event_type) :
       \E employee \in Range(employees) :
       \E target_resource \in TargetChoices :
       \E assigned_to \in SecurityPool :
          building' = Append(building,
              [id |-> <<"SEC", i + 1>>,
               event_type |-> event_type,
               severity |-> severity,
               employee_id |-> employee.id,
               department_id |-> employee.department_id,
               target_resource |-> target_resource,
               assigned_to |-> assigned_to])
    /\ i' = i + 1
    /\ UNCHANGED <<config, containers, outputs, pc, returned, raised>>

\* random.choice of an empty list raises IndexError: no employees, no
\* documents when a target is drawn, or nobody in DEPT_014.
FailSecurityEvents ==
    /\ pc = "security_events"
    /\ InRange(i, TOTAL_SECURITY_EVENTS)
    /\ (employees = <<>> \/ documents = <<>> \/ SecurityPool = {})
    /\ building' = <<>>
    /\ pc' = "error"
    /\ raised' = "IndexError"
    /\ UNCHANGED <<config, containers, outputs, i, returned>>

EndSecurityEvents(next) ==
    /\ pc = "security_events"
    /\ ~InRange(i, TOTAL_SECURITY_EVENTS)
    /\ security_events' = building
    /\ returned' = Append(returned, "generate_security_events")
    /\ pc' = next
    /\ UNCHANGED <<config, departments, employees, documents, access_logs,
                   outputs, building, i, raised>>

---------------------------------------------------------------------------
(* save_data_to_files and generate_all_data *)

dataset_names ==
    <<"departments", "employees", "documents", "document_permissions",
      "access_logs", "security_events">>

Dataset(dataset_name) ==
    CASE dataset_name = "departments" -> departments
      [] dataset_name = "employees" -> employees
      [] dataset_name = "documents" -> documents
      [] dataset_name = "document_permissions" -> permissions
      [] dataset_name = "access_logs" -> access_logs
      [] dataset_name = "security_events" -> security_events

\* Building the datasets dict calls generate_document_permissions().
BeginSave ==
    /\ pc = "call_save"
    /\ pc' = "call_permissions"
    /\ UNCHANGED <<config, containers, outputs, building, i, returned, raised>>

\* One iteration of "for dataset_name, data in datasets.items()".
WriteFile ==
    /\ pc = "write"
    /\ Len(files) < Len(dataset_names)
    /\ LET dataset_name == dataset_names[Len(files) + 1]
       IN  files' = Append(files,
              [filename |-> <<"generated", dataset_name, "json">>,
               data |-> Dataset(dataset_name)])
    /\ UNCHANGED <<config, containers, permissions, cross_samples, stats,
                   building, i, pc, returned, raised>>

EndSave(next) ==
    /\ pc = "write"
    /\ Len(files) >= Len(dataset_names)
    /\ returned' = Append(returned, "save_data_to_files")
    /\ pc' = next
    /\ UNCHANGED <<config, containers, outputs, building, i, raised>>

\* The dictionary generate_all_data returns (without the elapsed time).
Statistics ==
    [departments |-> Len(departments),
     employees |-> Len(employees),
     documents |-> Len(documents),
     access_logs |-> Len(access_logs),
     security_events |-> Len(security_events),
     total_records |-> Len(departments) + Len(employees) + Len(documents)
                          + Len(access_logs) + Len(security_events)]

ReturnStatistics ==
    /\ pc = "statistics"
    /\ stats' = Statistics
    /\ returned' = Append(returned, "generate_all_data")
    /\ pc' = "done"
    /\ UNCHANGED <<config, containers, permissions, cross_samples, files,
                   building, i, raised>>

---------------------------------------------------------------------------
(* load_data_to_database *)

generator == <<totals, containers, outputs, building, i, pc, returned, raised>>
others == <<generator, suite>>

\* The records of a dataset file, numbered in file order.
Records(n) == [k \in 1..n |-> k]

\* What "open(...)" and "json.load(f)" can give: the records of the file,
\* or one of the exceptions handled after the batch loop, each of which
\* sets load_success = False and continues with the next dataset.
FileErrors == {"FileNotFoundError", "JSONDecodeError", "Exception"}

\* data[i:i+BATCH_SIZE]
BatchWholeRest(records, start) == SubSeq(records, start + 1, Len(records))
Batch(records, start) ==
    SubSeq(records, start + 1, Min(start + BATCH_SIZE, Len(records)))

\* The answers to one POST: a status code, or a RequestException.
Responses == {"200", "500", "RequestException"}

\* "if not self.api_key: return False"
LoadWithoutKey ==
    /\ load_pc = "call_load"
    /\ api_key = NoneStr
    /\ load_result' = "False"
    /\ load_pc' = "load_returned"
    /\ UNCHANGED <<others, api_key, dataset_i, data, batch_start, load_success,
                   opened, posted, failed_batches>>

\* headers, datasets and "load_success = True".
BeginLoad ==
    /\ load_pc = "call_load"
    /\ api_key # NoneStr
    /\ load_success' = TRUE
    /\ dataset_i' = 1
    /\ load_pc' = "open"
    /\ UNCHANGED <<others, api_key, data, batch_start, opened, posted,
                   failed_batches, load_result>>

\* The head of "for dataset in datasets": the file is opened and parsed.
OpenDataset ==
    /\ load_pc = "open"
    /\ dataset_i \in DOMAIN dataset_names
    /\ \/ \E n \in 0..MaxFileRecords :
             /\ data' = Records(n)
             /\ batch_start' = 0
             /\ opened' = Append(opened, [dataset |-> dataset_names[dataset_i],
                                          read |-> TRUE,
                                          data |-> Records(n)])
             /\ load_pc' = "batches"
             /\ UNCHANGED <<dataset_i, load_success>>
       \/ \E error \in FileErrors :
             /\ load_success' = FALSE
             /\ opened' = Append(opened, [dataset |-> dataset_names[dataset_i],
                                          read |-> FALSE,
                                          data |-> <<>>])
             /\ dataset_i' = dataset_i + 1
             /\ UNCHANGED <<data, batch_start, load_pc>>
    /\ UNCHANGED <<others, api_key, posted, failed_batches, load_result>>

\* One iteration of "for i in range(0, len(data), BATCH_SIZE)": one POST,
\* whose failure only clears load_success.
PostBatch ==
    /\ load_pc = "batches"
    /\ batch_start < Len(data)
    /\ posted' = Append(posted, [table |-> dataset_names[dataset_i],
                                 data |-> Batch(data, batch_start)])
    /\ \E response \in Responses :
          IF response = "200"
          THEN UNCHANGED <<load_success, failed_batches>>
          ELSE /\ load_success' = FALSE
               /\ failed_batches' = failed_batches + 1
    /\ batch_start' = batch_start + BATCH_SIZE
    /\ UNCHANGED <<others, api_key, load_pc, dataset_i, data, opened, load_result>>

\* The batch loop is exhausted: on to the next dataset.
EndBatches ==
    /\ load_pc = "batches"
    /\ batch_start >= Len(data)
    /\ dataset_i' = dataset_i + 1
    /\ load_pc' = "open"
    /\ UNCHANGED <<others, api_key, data, batch_start, load_success, opened,
                   posted, failed_batches, load_result>>

\* "return load_success"
ReturnLoad ==
    /\ load_pc = "open"
    /\ dataset_i \notin DOMAIN dataset_names
    /\ load_result' = (IF load_success THEN "True" ELSE "False")
    /\ load_pc' = "load_returned"
    /\ UNCHANGED <<others, api_key, dataset_i, data, batch_start, load_success,
                   opened, posted, failed_batches>>

\* The loader before load_data_to_database is called, without an API key.
LoaderIdle ==
    /\ api_key = NoneStr
    /\ load_pc = "idle"
    /\ dataset_i = 0
    /\ data = <<>>
    /\ batch_start = 0
    /\ load_success = FALSE
    /\ opened = <<>>
    /\ posted = <<>>
    /\ failed_batches = 0
    /\ load_result = NoneStr

---------------------------------------------------------------------------
(* run_full_suite and its steps (python-integration-test) *)

\* required_files of check_data_exists, which is also the order in which
\* TestDataGenerator.generate_all writes them.
required_files ==
    <<"customers.csv", "products.csv", "orders.csv", "biometric_data.csv">>

step_order ==
    <<"generate_data_step", "load_data_step", "query_test_step",
      "performance_test_step">>

\* check_data_exists()
DataExists == \A k \in DOMAIN required_files : required_files[k] \in data_files

\* The answers to Confirm.ask: yes, no, or an exception (end of input,
\* interrupt), which no step catches.
Answers == {"yes", "no", "raises"}

\* A step returns result to run_full_suite, which returns 1 on False, goes
\* on to the next step on True and returns 0 after the last step.
StepReturnsIgnoringFailure(step, path, result) ==
    /\ reported' = Append(reported, [step |-> step, path |-> path, result |-> result])
    /\ IF step = step_order[Len(step_order)]
       THEN suite_pc' = "exited" /\ exit_code' = <<0>>
       ELSE /\ suite_pc' = step_order[(CHOOSE k \in DOMAIN step_order :
                                           step_order[k] = step) + 1]
            /\ UNCHANGED exit_code
StepReturns(step, path, result) ==
    /\ reported' = Append(reported, [step |-> step, path |-> path, result |-> result])
    /\ IF ~result
       THEN suite_pc' = "exited" /\ exit_code' = <<1>>
       ELSE IF step = step_order[Len(step_order)]
       THEN suite_pc' = "exited" /\ exit_code' = <<0>>
       ELSE /\ suite_pc' = step_order[(CHOOSE k \in DOMAIN step_order :
                                           step_order[k] = step) + 1]
            /\ UNCHANGED exit_code

\* An exception no step catches leaves run_full_suite without a return value.
StepRaises ==
    /\ suite_pc' = "raised"
    /\ UNCHANGED <<reported, exit_code>>

\* print_banner, print_settings and the head of generate_data_step: the
\* check for existing data and, if there is some, the question.
BeginGenerateDataStep ==
    /\ suite_pc = "call_suite"
    /\ started' = Append(started, "generate_data_step")
    /\ IF DataExists
       THEN \E regenerate \in Answers :
               CASE regenerate = "no" ->
                       StepReturns("generate_data_step", "existing", TRUE)
                 [] regenerate = "yes" ->
                       suite_pc' = "generate_all" /\ UNCHANGED <<reported, exit_code>>
                 [] regenerate = "raises" -> StepRaises
       ELSE suite_pc' = "generate_all" /\ UNCHANGED <<reported, exit_code>>
    /\ UNCHANGED <<generator, loading, data_files, csv_written>>

\* One of generate_customers, generate_products, generate_orders and
\* generate_biometric_data: it writes its CSV file.
WriteCsv ==
    /\ suite_pc = "generate_all"
    /\ csv_written < Len(required_files)
    /\ data_files' = data_files \cup {required_files[csv_written + 1]}
    /\ csv_written' = csv_written + 1
    /\ UNCHANGED <<generator, loading, suite_pc, started, reported, exit_code>>

\* "except Exception" of generate_data_step: return False.
FailGenerateDataStep ==
    /\ suite_pc = "generate_all"
    /\ StepReturns("generate_data_step", "exception", FALSE)
    /\ UNCHANGED <<generator, loading, data_files, csv_written, started>>

\* generate_all returned: return True.
EndGenerateDataStep ==
    /\ suite_pc = "generate_all"
    /\ csv_written = Len(required_files)
    /\ StepReturns("generate_data_step", "generated", TRUE)
    /\ UNCHANGED <<generator, loading, data_files, csv_written, started>>

\* load_data_step: False without data or on an exception; True when
\* DataLoader.load_all returned, which it also does when the connection
\* check failed.
LoadDataStep ==
    /\ suite_pc = "load_data_step"
    /\ started' = Append(started, "load_data_step")
    /\ IF ~DataExists
       THEN StepReturns("load_data_step", "no_data", FALSE)
       ELSE \E path \in {"loaded", "connection_failed", "exception"} :
               StepReturns("load_data_step", path, path # "exception")
    /\ UNCHANGED <<generator, loading, data_files, csv_written>>

\* query_test_step
QueryTestStep ==
    /\ suite_pc = "query_test_step"
    /\ started' = Append(started, "query_test_step")
    /\ \E path \in {"tested", "exception"} :
          StepReturns("query_test_step", path, path # "exception")
    /\ UNCHANGED <<generator, loading, data_files, csv_written>>

\* performance_test_step: True when the benchmarks are declined or ran.
PerformanceTestStep ==
    /\ suite_pc = "performance_test_step"
    /\ started' = Append(started, "performance_test_step")
    /\ \E run_benchmarks \in Answers :
          CASE run_benchmarks = "no" ->
                  StepReturns("performance_test_step", "skipped", TRUE)
            [] run_benchmarks = "yes" ->
                  \E path \in {"benchmarked", "exception"} :
                     StepReturns("performance_test_step", path, path # "exception")
            [] run_benchmarks = "raises" -> StepRaises
    /\ UNCHANGED <<generator, loading, data_files, csv_written>>

\* The suite before run_full_suite is called, with an empty data directory.
SuiteIdle ==
    /\ data_files = {}
    /\ csv_written = 0
    /\ suite_pc = "idle"
    /\ started = <<>>
    /\ reported = <<>>
    /\ exit_code = None

---------------------------------------------------------------------------
(* Runs *)

Fresh(units, people, docs, logs, events) ==
    /\ TOTAL_DEPARTMENTS \in units
    /\ TOTAL_EMPLOYEES \in people
    /\ TOTAL_DOCUMENTS \in docs
    /\ TOTAL_ACCESS_LOGS \in logs
    /\ TOTAL_SECURITY_EVENTS \in events
    /\ departments = <<>>
    /\ employees = <<>>
    /\ documents = <<>>
    /\ access_logs = <<>>
    /\ security_events = <<>>
    /\ permissions = <<>>
    /\ cross_samples = <<>>
    /\ files = <<>>
    /\ stats = None
    /\ building = <<>>
    /\ i = 0
    /\ pc = "call_departments"
    /\ returned = <<>>
    /\ raised = NoneStr

Start(units, people, docs, logs, events) ==
    Fresh(units, people, docs, logs, events) /\ LoaderIdle /\ SuiteIdle

\* generate_all_data().  A run with incidents completes only when somebody
\* is in unit 14, so it has 14 units; it then has no documents.
Init ==
    \/ Start(0..TeamUnits, 0..RunPeople, 0..MaxDocuments, 0..MaxAccessLogs,
             0..MaxSecurityEvents)
    \/ Start({SECURITY_DEPT_NUMBER}, {RunPeople}, {0}, {0}, 1..MaxSecurityEvents)

Next ==
    \/ BeginDepartments
    \/ StepDepartments
    \/ EndDepartments("call_employees")
    \/ BeginEmployees
    \/ StepEmployees
    \/ FailEmployees
    \/ EndEmployees("call_documents")
    \/ BeginDocuments
    \/ StepDocuments
    \/ FailDocuments
    \/ EndDocuments("call_access_logs")
    \/ BeginAccessLogs
    \/ StepAccessLogs
    \/ FailAccessLogs
    \/ EndAccessLogs("call_security_events")
    \/ BeginSecurityEvents
    \/ StepSecurityEvents
    \/ FailSecurityEvents
    \/ EndSecurityEvents("call_save")
    \/ BeginSave
    \/ BeginPermissions
    \/ StepPermissions
    \/ FailPermissions
    \/ EndPermissions("write")
    \/ WriteFile
    \/ EndSave("statistics")
    \/ ReturnStatistics

Spec == Init /\ [][Next]_vars

\* A caller that builds the organisation: generate_departments(), then
\* generate_employees().
InitOrg == Start(1..MaxUnits, 0..MaxPeople, {0}, {0}, {0})

NextOrg ==
    \/ BeginDepartments
    \/ StepDepartments
    \/ EndDepartments("call_employees")
    \/ BeginEmployees
    \/ StepEmployees
    \/ EndEmployees("returned")

SpecOrg == InitOrg /\ [][NextOrg]_vars

\* A caller that goes on to generate_documents().
InitDocs == Start(1..TeamUnits, {TeamPeople}, 0..MaxDocuments, {0}, {0})

NextDocs ==
    \/ BeginDepartments
    \/ StepDepartments
    \/ EndDepartments("call_employees")
    \/ BeginEmployees
    \/ StepEmployees
    \/ EndEmployees("call_documents")
    \/ BeginDocuments
    \/ StepDocuments
    \/ EndDocuments("returned")

SpecDocs == InitDocs /\ [][NextDocs]_vars

\* A caller that goes on to generate_documents() and generate_access_logs().
InitAccess == Start(1..SoloUnits, {MaxPeople}, {MaxDocuments}, 0..MaxAccessLogs, {0})

NextAccess ==
    \/ BeginDepartments
    \/ StepDepartments
    \/ EndDepartments("call_employees")
    \/ BeginEmployees
    \/ StepEmployees
    \/ EndEmployees("call_documents")
    \/ BeginDocuments
    \/ StepDocuments
    \/ EndDocuments("call_access_logs")
    \/ BeginAccessLogs
    \/ StepAccessLogs
    \/ EndAccessLogs("returned")

SpecAccess == InitAccess /\ [][NextAccess]_vars

\* A caller that goes on to generate_documents() and
\* generate_document_permissions().
InitPerm == Start(1..TeamUnits, {TeamPeople}, 0..MaxDocuments, {0}, {0})

NextPerm ==
    \/ BeginDepartments
    \/ StepDepartments
    \/ EndDepartments("call_employees")
    \/ BeginEmployees
    \/ StepEmployees
    \/ EndEmployees("call_documents")
    \/ BeginDocuments
    \/ StepDocuments
    \/ EndDocuments("call_permissions")
    \/ BeginPermissions
    \/ StepPermissions
    \/ FailPermissions
    \/ EndPermissions("returned")

SpecPerm == InitPerm /\ [][NextPerm]_vars

\* The same caller with one unit, one person and several documents.
InitTable == Start(1..SoloUnits, {RunPeople}, {TableDocuments}, {0}, {0})

SpecTable == InitTable /\ [][NextPerm]_vars

\* generate_all_data() with several people, a document, an access event and
\* a target of zero incidents (generate_security_events runs no iteration),
\* up to the point where save_data_to_files has built its datasets.
InitAudit ==
    Start(1..TeamUnits, {TeamPeople}, {MaxDocuments}, {MaxAccessLogs}, {0})

NextAudit ==
    \/ BeginDepartments
    \/ StepDepartments
    \/ EndDepartments("call_employees")
    \/ BeginEmployees
    \/ StepEmployees
    \/ EndEmployees("call_documents")
    \/ BeginDocuments
    \/ StepDocuments
    \/ EndDocuments("call_access_logs")
    \/ BeginAccessLogs
    \/ StepAccessLogs
    \/ EndAccessLogs("call_security_events")
    \/ BeginSecurityEvents
    \/ EndSecurityEvents("call_save")
    \/ BeginSave
    \/ BeginPermissions
    \/ StepPermissions
    \/ FailPermissions
    \/ EndPermissions("write")

SpecAudit == InitAudit /\ [][NextAudit]_vars

\* A caller of generate_departments() alone, with a target at or beyond the
\* end of the name catalog.
InitCatalog ==
    Start(Len(department_names)..(Len(department_names) + CatalogExcess),
          {0}, {0}, {0}, {0})

NextCatalog ==
    \/ BeginDepartments
    \/ StepDepartments
    \/ FailDepartments
    \/ EndDepartments("returned")

SpecCatalog == InitCatalog /\ [][NextCatalog]_vars

\* A caller that builds an organisation with the security unit and goes on
\* to generate_security_events(), without documents.
InitIncidents ==
    Start({SECURITY_DEPT_NUMBER}, {SecurityPeople}, {0}, {0}, 0..MaxSecurityEvents)

NextIncidents ==
    \/ BeginDepartments
    \/ StepDepartments
    \/ EndDepartments("call_employees")
    \/ BeginEmployees
    \/ StepEmployees
    \/ EndEmployees("call_security_events")
    \/ BeginSecurityEvents
    \/ StepSecurityEvents
    \/ FailSecurityEvents
    \/ EndSecurityEvents("returned")

SpecIncidents == InitIncidents /\ [][NextIncidents]_vars

\* A caller that holds what generate_departments(), generate_employees()
\* and generate_documents() returned for LowUnits units, LowPeople people
\* and one document, and goes on to generate_access_logs().  Of the
\* organisations the methods can return, the run takes those where every
\* drawn unit level is the lowest of its choices, person k is drawn into
\* unit ((k - 1) mod units) + 1 except the last person, who is drawn into
\* the last unit, and every drawn role is the first of its list; the roll
\* that lowers a staff member's clearance keeps both outcomes.  The
\* document has any type, level and owner generate_documents can draw, and
\* the first or the last person as its creator.
LowestLevel(levels) ==
    CHOOSE l \in levels : \A m \in levels : LevelIndex(l) <= LevelIndex(m)

LowDepartments ==
    [k \in 1..Min(LowUnits, Len(department_names)) |->
        [id |-> DeptId(k),
         name |-> DeptName(k - 1),
         security_level |-> LowestLevel(DeptLevelChoices(DeptName(k - 1))),
         manager_id |-> EmpId(k)]]

LowRole(idx) ==
    IF RoleChoices(idx, LowUnits) = LeadRoles THEN "Abteilungsleiter"
    ELSE IF RoleChoices(idx, LowUnits) = SeniorRoles THEN "Senior_Spezialist"
    ELSE "Spezialist"

LowEmployees(lowered) ==
    [k \in 1..LowPeople |->
        LET department == LowDepartments[IF k = LowPeople
                                         THEN Len(LowDepartments)
                                         ELSE ((k - 1) % Len(LowDepartments)) + 1]
        IN  [id |-> EmpId(k),
             department_id |-> department.id,
             role |-> LowRole(k - 1),
             security_clearance |->
                 Clearance(department.security_level,
                           k = LowPeople /\ lowered),
             manager_id |-> ManagerId(EmpId(k), department)]]

LowDocuments(people) ==
    {<<[id |-> DocId(1),
        document_type |-> doc_type,
        security_classification |-> security_level,
        owner_department_id |-> owner_dept.id,
        creator_employee_id |-> creator.id]>> :
        doc_type \in Range(document_types),
        security_level \in Range(clearance_levels),
        creator \in {people[1], people[Len(people)]},
        owner_dept \in Range(LowDepartments)}

InitLow ==
    /\ TOTAL_DEPARTMENTS = LowUnits
    /\ TOTAL_EMPLOYEES = LowPeople
    /\ TOTAL_ACCESS_LOGS \in 0..MaxAccessLogs
    /\ TOTAL_SECURITY_EVENTS = 0
    /\ departments = LowDepartments
    /\ \E lowered \in LoweredChoices(LowPeople - 1, LowUnits) :
          /\ employees = LowEmployees(lowered)
          /\ documents \in
                {docs \in LowDocuments(LowEmployees(lowered)) :
                    docs[1].security_classification
                        \in DocLevelChoices(docs[1].document_type)}
    /\ TOTAL_DOCUMENTS = Len(documents)
    /\ building = documents
    /\ access_logs = <<>>
    /\ security_events = <<>>
    /\ permissions = <<>>
    /\ cross_samples = <<>>
    /\ files = <<>>
    /\ stats = None
    /\ i = Len(documents)
    /\ pc = "call_access_logs"
    /\ returned = <<"generate_departments", "generate_employees", "generate_documents">>
    /\ raised = NoneStr
    /\ LoaderIdle
    /\ SuiteIdle

NextLow ==
    \/ BeginAccessLogs
    \/ StepAccessLogs
    \/ EndAccessLogs("returned")

SpecLow == InitLow /\ [][NextLow]_vars

\* A caller of load_data_to_database(), with or without an API key; the
\* generator is not run.
InitLoad ==
    /\ Fresh({0}, {0}, {0}, {0}, {0})
    /\ api_key \in {NoneStr, "key"}
    /\ load_pc = "call_load"
    /\ dataset_i = 0
    /\ data = <<>>
    /\ batch_start = 0
    /\ load_success = FALSE
    /\ opened = <<>>
    /\ posted = <<>>
    /\ failed_batches = 0
    /\ load_result = NoneStr
    /\ SuiteIdle

NextLoad ==
    \/ LoadWithoutKey
    \/ BeginLoad
    \/ OpenDataset
    \/ PostBatch
    \/ EndBatches
    \/ ReturnLoad

SpecLoad == InitLoad /\ [][NextLoad]_vars

\* A caller of run_full_suite(), with any of the required files already in
\* the data directory; the generator and the loader above are not run.
InitSuite ==
    /\ Fresh({0}, {0}, {0}, {0}, {0})
    /\ LoaderIdle
    /\ data_files \in SUBSET Range(required_files)
    /\ csv_written = 0
    /\ suite_pc = "call_suite"
    /\ started = <<>>
    /\ reported = <<>>
    /\ exit_code = None

NextSuite ==
    \/ BeginGenerateDataStep
    \/ WriteCsv
    \/ FailGenerateDataStep
    \/ EndGenerateDataStep
    \/ LoadDataStep
    \/ QueryTestStep
    \/ PerformanceTestStep

SpecSuite == InitSuite /\ [][NextSuite]_vars

---------------------------------------------------------------------------
(* Vocabulary of the properties *)

Has(method) == \E k \in DOMAIN returned : returned[k] = method

\* The people generated so far: the list under construction while
\* generate_employees runs, self.employees otherwise.
People == IF pc = "employees" THEN building ELSE employees

Tier(role) ==
    IF role \in LeadRoles THEN "lead"
    ELSE IF role \in SeniorRoles THEN "senior"
    ELSE "staff"

UnitOf(dept_id) == CHOOSE u \in Range(departments) : u.id = dept_id
PersonOf(emp_id) == CHOOSE e \in Range(employees) : e.id = emp_id
AssetOf(doc_id) == CHOOSE d \in Range(documents) : d.id = doc_id

\* The documents, access events and permission records generated so far.
Assets == IF pc = "documents" THEN building ELSE documents
Events == IF pc = "access_logs" THEN building ELSE access_logs
Grants == IF pc = "permissions" THEN building ELSE permissions
Incidents == IF pc = "security_events" THEN building ELSE security_events

---------------------------------------------------------------------------
(* Properties of generate_departments and generate_employees (SpecOrg) *)

\* C4 (as claimed): after generate_employees, every unit's manager_id is the
\* id of a person whose department_id is that unit.  The configurations with
\* fewer people than units, where a manager_id names nobody, are left aside.
C4_ManagerBelongsToUnit ==
    (Has("generate_employees") /\ TOTAL_EMPLOYEES >= TOTAL_DEPARTMENTS) =>
        \A u \in Range(departments) :
            \E e \in Range(employees) :
                e.id = u.manager_id /\ e.department_id = u.id

\* C5: every generated person's clearance ordinal is at most the
\* classification ordinal of the unit the person is assigned to.
C5_ClearanceAtMostUnit ==
    \A e \in Range(People) :
        LevelIndex(e.security_clearance)
            <= LevelIndex(UnitOf(e.department_id).security_level)

\* C5 witness: generate_employees returned a staff member whose clearance is
\* strictly below the unit's level (the 30% roll) besides one at the level.
C5_Witness ==
    /\ Has("generate_employees")
    /\ \E e \in Range(employees) :
          /\ Tier(e.role) = "staff"
          /\ LevelIndex(e.security_clearance)
                < LevelIndex(UnitOf(e.department_id).security_level)
    /\ \E e \in Range(employees) :
          e.security_clearance = UnitOf(e.department_id).security_level

\* C7: the role tier follows the generation order alone: with K units the
\* people at 0-based positions 0..K-1 are leads, K..3K-1 seniors, later ones
\* staff; with 25 units person #26 is a senior and person #76 is staff.
C7_TierByPosition ==
    /\ \A p \in DOMAIN People :
          LET idx == p - 1
              tier == Tier(People[p].role)
          IN  /\ idx < TOTAL_DEPARTMENTS => tier = "lead"
              /\ (TOTAL_DEPARTMENTS <= idx /\ idx < 3 * TOTAL_DEPARTMENTS)
                    => tier = "senior"
              /\ idx >= 3 * TOTAL_DEPARTMENTS => tier = "staff"
    /\ \A role \in RoleChoices(26 - 1, 25) : Tier(role) = "senior"
    /\ \A role \in RoleChoices(76 - 1, 25) : Tier(role) = "staff"

\* C7 witness: a returned people list holding all three tiers.
C7_Witness ==
    /\ Has("generate_employees")
    /\ \A tier \in {"lead", "senior", "staff"} :
          \E e \in Range(employees) : Tier(e.role) = tier

\* C10: with a target count within the name catalog, generate_departments
\* returns exactly that many units, each named from the catalog, no two alike.
C10_UnitsCountAndNames ==
    (Has("generate_departments") /\ TOTAL_DEPARTMENTS <= Len(department_names)) =>
        /\ Len(departments) = TOTAL_DEPARTMENTS
        /\ \A k \in DOMAIN departments :
              departments[k].name \in Range(department_names)
        /\ \A k, m \in DOMAIN departments :
              k # m => departments[k].name # departments[m].name

\* C10 witness: generate_departments returned several units, one of them
\* with a randomly drawn level.
C10_Witness ==
    /\ Has("generate_departments")
    /\ Len(departments) >= 3
    /\ \E u \in Range(departments) : u.security_level = "INTERN"

\* C17: no person's manager_id is their own id: the person a unit records
\* as its manager has manager_id None when assigned to that unit, and every
\* other person's manager_id is the manager_id of their unit.
C17_NeverOwnManager ==
    \A e \in Range(People) :
        LET unit == UnitOf(e.department_id)
        IN  /\ e.manager_id # e.id
            /\ e.id = unit.manager_id => e.manager_id = None
            /\ e.id # unit.manager_id => e.manager_id = unit.manager_id

\* C17 witness: generate_employees returned a person assigned to the unit
\* that records them as manager, and another person of that unit.
C17_Witness ==
    /\ Has("generate_employees")
    /\ \E e, f \in Range(employees) :
          /\ e.id = UnitOf(e.department_id).manager_id
          /\ e.manager_id = None
          /\ f.department_id = e.department_id
          /\ f.manager_id = e.id

\* C18: every lead and every senior has exactly the classification of
\* their unit as clearance; every staff member has the unit's classification
\* or the level one ordinal step below it, never a lower one and never one
\* below the lowest level.  The derivation keeps to this for every level a
\* unit can have.
C18_ClearanceDerivation ==
    /\ \A e \in Range(People) :
          LET unit_idx == LevelIndex(UnitOf(e.department_id).security_level)
              idx == LevelIndex(e.security_clearance)
          IN  /\ Tier(e.role) \in {"lead", "senior"} => idx = unit_idx
              /\ Tier(e.role) = "staff" => idx \in {unit_idx, unit_idx - 1}
              /\ idx >= 0
    /\ \A level \in Range(clearance_levels) :
          /\ Clearance(level, FALSE) = level
          /\ Clearance(level, TRUE) \in Range(clearance_levels)
          /\ LevelIndex(Clearance(level, TRUE))
                = Max(0, LevelIndex(level) - 1)

\* C18 witness: generate_employees returned a lead and a senior at their
\* unit's level and a staff member one step below theirs.
C18_Witness ==
    /\ Has("generate_employees")
    /\ \E e \in Range(employees) :
          /\ Tier(e.role) = "lead"
          /\ e.security_clearance = UnitOf(e.department_id).security_level
    /\ \E e \in Range(employees) :
          /\ Tier(e.role) = "senior"
          /\ e.security_clearance = UnitOf(e.department_id).security_level
    /\ \E e \in Range(employees) :
          /\ Tier(e.role) = "staff"
          /\ LevelIndex(e.security_clearance)
                = LevelIndex(UnitOf(e.department_id).security_level) - 1

---------------------------------------------------------------------------
(* Properties of generate_documents (SpecDocs) *)

\* The level subset of each document category.
CategoryLevels(doc_type) ==
    CASE doc_type \in {"Personalakten", "Finanzberichte", "Strategische_Plaene"}
            -> {"GEHEIM", "STRENG_GEHEIM"}
      [] doc_type \in {"Vertraege", "Compliance_Dokumente", "Sicherheitsrichtlinien"}
            -> {"VERTRAULICH", "GEHEIM"}
      [] doc_type \in {"Technische_Spezifikationen", "Forschung_Entwicklung"}
            -> {"VERTRAULICH", "GEHEIM", "STRENG_GEHEIM"}
      [] doc_type \in {"Kundenakten", "Lieferantenvertraege"}
            -> {"INTERN", "VERTRAULICH"}

\* C8: every generated document's classification belongs to the level subset
\* of its category; a category mapped to {GEHEIM, STRENG_GEHEIM} only never
\* yields INTERN.
C8_ClassificationWithinCategory ==
    \A doc \in Range(Assets) :
        /\ doc.document_type \in Range(document_types)
        /\ doc.security_classification \in CategoryLevels(doc.document_type)
        /\ CategoryLevels(doc.document_type) = {"GEHEIM", "STRENG_GEHEIM"}
              => doc.security_classification # "INTERN"

\* C8 witness: generate_documents returned a document of a category mapped
\* to {GEHEIM, STRENG_GEHEIM}.
C8_Witness ==
    /\ Has("generate_documents")
    /\ \E doc \in Range(documents) :
          CategoryLevels(doc.document_type) = {"GEHEIM", "STRENG_GEHEIM"}

---------------------------------------------------------------------------
(* Properties of generate_document_permissions (SpecPerm) *)

\* The people outside the document's owning unit, and those of them whose
\* clearance is at least the document's classification.
Outsiders(doc) ==
    {e \in Range(employees) : e.department_id # doc.owner_department_id}
EligibleOutsiders(doc) == {e \in Outsiders(doc) : Eligible(e, doc)}

\* C1 (as claimed): every returned permission record, the creator's SYSTEM
\* entry included, pairs a person and a document with clearance ordinal >=
\* classification ordinal.
C1_EveryGrantWithinClearance ==
    \A p \in Range(permissions) :
        Eligible(PersonOf(p.employee_id), AssetOf(p.document_id))

\* C9 (as claimed): the size of every cross-unit sample lies between 1 and
\* min(5, number of people outside the owning unit whose clearance is at
\* least the document's classification).
C9_SampleWithinEligiblePool ==
    \A s \in Range(cross_samples) :
        /\ Len(s.employee_ids) >= 1
        /\ Len(s.employee_ids)
              <= Min(5, Cardinality(EligibleOutsiders(AssetOf(s.document_id))))

\* C9 (amended): the sample is drawn from all the people outside the owning
\* unit, whatever their clearance: distinct people, between 1 and min(5,
\* number of people outside the unit).  The clearance check comes after the
\* draw: the records emitted for people outside the unit are those of the
\* sampled people with sufficient clearance, at most min(5, eligible pool).
\* With nobody outside the unit the draw raises ValueError instead.
C9_SampleWithinCrossPool ==
    /\ raised = "ValueError" => Outsiders(documents[i + 1]) = {}
    /\ \A s \in Range(cross_samples) :
           LET doc == AssetOf(s.document_id)
               sampled == Range(s.employee_ids)
               granted == {p.employee_id : p \in
                             {q \in Range(Grants) :
                                 /\ q.document_id = doc.id
                                 /\ q.granted_by # <<"SYSTEM">>
                                 /\ PersonOf(q.employee_id) \in Outsiders(doc)}}
           IN  /\ Len(s.employee_ids) >= 1
               /\ Len(s.employee_ids) <= Min(5, Cardinality(Outsiders(doc)))
               /\ Cardinality(sampled) = Len(s.employee_ids)
               /\ \A id \in sampled : PersonOf(id) \in Outsiders(doc)
               /\ granted = {id \in sampled : Eligible(PersonOf(id), doc)}
               /\ Cardinality(granted) <= Min(5, Cardinality(EligibleOutsiders(doc)))

\* C9 witness: generate_document_permissions returned after a sample larger
\* than the eligible pool of its document.
C9_Witness ==
    /\ Has("generate_document_permissions")
    /\ \E s \in Range(cross_samples) :
          Len(s.employee_ids) > Cardinality(EligibleOutsiders(AssetOf(s.document_id)))

\* The positions in the permission table of the records of a document
\* that were granted by "SYSTEM".
SystemGrants(doc) ==
    {k \in DOMAIN permissions :
        /\ permissions[k].document_id = doc.id
        /\ permissions[k].granted_by = <<"SYSTEM">>}

\* C19: for every document, the returned permission table holds exactly
\* one record granted by "SYSTEM"; it names the document's creator, has type
\* FULL_ACCESS and no expiry.
C19_OneSystemGrantPerAsset ==
    Has("generate_document_permissions") =>
        /\ \A doc \in Range(documents) :
              /\ Cardinality(SystemGrants(doc)) = 1
              /\ \A k \in SystemGrants(doc) :
                    /\ permissions[k].employee_id = doc.creator_employee_id
                    /\ permissions[k].permission_type = "FULL_ACCESS"
                    /\ permissions[k].expires_at = None
        /\ \A p \in Range(permissions) :
              \E doc \in Range(documents) : p.document_id = doc.id

\* C19 witness: the returned table covers two documents and holds, for
\* each, the creator's SYSTEM record and a second record of the creator
\* from the unit-member loop.
C19_Witness ==
    /\ Has("generate_document_permissions")
    /\ Len(documents) >= 2
    /\ \A doc \in Range(documents) :
       \E k, m \in DOMAIN permissions :
          /\ k \in SystemGrants(doc)
          /\ m \notin SystemGrants(doc)
          /\ permissions[m].document_id = doc.id
          /\ permissions[m].employee_id = doc.creator_employee_id

\* C20 (as claimed): every returned permission record, whichever branch
\* produced it, whose person is the document's creator, a lead or a senior
\* has type READ_WRITE or FULL_ACCESS; READ_ONLY goes to non-creator staff
\* only.
C20_EscalationInEveryBranch ==
    \A p \in Range(permissions) :
        LET person == PersonOf(p.employee_id)
            doc == AssetOf(p.document_id)
            standing == \/ person.id = doc.creator_employee_id
                        \/ Tier(person.role) \in {"lead", "senior"}
        IN  /\ standing => p.permission_type \in {"READ_WRITE", "FULL_ACCESS"}
            /\ p.permission_type = "READ_ONLY" => ~standing

---------------------------------------------------------------------------
(* Properties of generate_access_logs (SpecAccess) *)

\* C2: every access event with result SUCCESS references a person and a
\* document with clearance ordinal >= classification ordinal.
C2_SuccessWithinClearance ==
    \A ev \in Range(Events) :
        ev.result = "SUCCESS" =>
            LevelIndex(PersonOf(ev.employee_id).security_clearance)
                >= LevelIndex(AssetOf(ev.document_id).security_classification)

\* C2 witness: generate_access_logs returned a SUCCESS event, in a run that
\* also has a person below the document's classification.
C2_Witness ==
    /\ Has("generate_access_logs")
    /\ \E ev \in Range(access_logs) : ev.result = "SUCCESS"
    /\ \E e \in Range(employees) : \E d \in Range(documents) : ~Eligible(e, d)

\* C3: every EDIT or DELETE event with result SUCCESS has an actor who is
\* the document's creator or holds an elevated role tier (lead or senior).
C3_MutateSuccessNeedsStanding ==
    \A ev \in Range(Events) :
        (ev.action \in {"EDIT", "DELETE"} /\ ev.result = "SUCCESS") =>
            \/ ev.employee_id = AssetOf(ev.document_id).creator_employee_id
            \/ Tier(PersonOf(ev.employee_id).role) \in {"lead", "senior"}

\* C3 witness: a returned EDIT or DELETE event that succeeded for a staff
\* member, who is then the creator.
C3_Witness ==
    /\ Has("generate_access_logs")
    /\ \E ev \in Range(access_logs) :
          /\ ev.action \in {"EDIT", "DELETE"}
          /\ ev.result = "SUCCESS"
          /\ Tier(PersonOf(ev.employee_id).role) = "staff"

\* C21 (as claimed): for an EDIT or DELETE event of an actor who passed the
\* clearance comparison and the success roll, the result is ACCESS_DENIED
\* exactly when the actor is neither a lead, nor a senior, nor the
\* document's creator; a lead, senior or creator gets SUCCESS.  The forced
\* denial is the one with reason INSUFFICIENT_PERMISSIONS.
C21_MutateDeniedIffNoStanding ==
    /\ \A ev \in Range(Events) :
          ev.reason = "INSUFFICIENT_PERMISSIONS" =>
             /\ ev.employee_id # AssetOf(ev.document_id).creator_employee_id
             /\ Tier(PersonOf(ev.employee_id).role) = "staff"
    /\ Has("generate_documents") =>
          \A employee \in Range(employees) : \A document \in Range(documents) :
          \A action \in {"EDIT", "DELETE"} :
             LET standing == \/ Tier(employee.role) \in {"lead", "senior"}
                             \/ employee.id = document.creator_employee_id
                 out == Outcome(employee, document, TRUE, NoneStr, action)
             IN  /\ out.result = "ACCESS_DENIED" <=> ~standing
                 /\ standing => out.result = "SUCCESS"

---------------------------------------------------------------------------
(* Properties of the access events against the permission table (SpecAudit) *)

\* The permission records of a person for a document.
GrantsFor(employee_id, document_id) ==
    {k \in DOMAIN permissions :
        /\ permissions[k].employee_id = employee_id
        /\ permissions[k].document_id = document_id}

\* C22: access-event generation never consults the permission table: the
\* table does not exist yet while generate_access_logs runs, the events are
\* not touched once it exists, and every SUCCESS event is within the
\* clearance rule (clearance ordinal >= classification ordinal) whether or
\* not a permission record exists for its person and document.
C22_AccessIgnoresPermissionTable ==
    /\ pc \in {"call_access_logs", "access_logs"} =>
          (permissions = <<>> /\ ~Has("generate_document_permissions"))
    /\ Has("generate_document_permissions") => Len(access_logs) = TOTAL_ACCESS_LOGS
    /\ \A ev \in Range(Events) :
          ev.result = "SUCCESS" =>
             \E e \in Range(employees) : \E d \in Range(documents) :
                /\ e.id = ev.employee_id
                /\ d.id = ev.document_id
                /\ LevelIndex(e.security_clearance)
                      >= LevelIndex(d.security_classification)

\* C22 witness: the datasets of a run are built, and its SUCCESS event
\* references a person and a document for which the permission table holds
\* no record.
C22_Witness ==
    /\ pc = "write"
    /\ permissions # <<>>
    /\ \E ev \in Range(access_logs) :
          /\ ev.result = "SUCCESS"
          /\ GrantsFor(ev.employee_id, ev.document_id) = {}

---------------------------------------------------------------------------
(* Properties of generate_all_data (Spec) *)

\* C6: when generate_all_data has completed, the number of records of every
\* entity type equals its configured target, and the returned statistics
\* report those counts.  Each container holds its target from the moment
\* its method returns.
C6_CountsEqualTargets ==
    /\ Has("generate_departments") => Len(departments) = TOTAL_DEPARTMENTS
    /\ Has("generate_employees") => Len(employees) = TOTAL_EMPLOYEES
    /\ Has("generate_documents") => Len(documents) = TOTAL_DOCUMENTS
    /\ Has("generate_access_logs") => Len(access_logs) = TOTAL_ACCESS_LOGS
    /\ Has("generate_security_events") => Len(security_events) = TOTAL_SECURITY_EVENTS
    /\ pc = "done" =>
        /\ \A method \in {"generate_departments", "generate_employees",
                           "generate_documents", "generate_access_logs",
                           "generate_security_events"} : Has(method)
        /\ stats.departments = TOTAL_DEPARTMENTS
        /\ stats.employees = TOTAL_EMPLOYEES
        /\ stats.documents = TOTAL_DOCUMENTS
        /\ stats.access_logs = TOTAL_ACCESS_LOGS
        /\ stats.security_events = TOTAL_SECURITY_EVENTS
        /\ stats.total_records = TOTAL_DEPARTMENTS + TOTAL_EMPLOYEES + TOTAL_DOCUMENTS
                                    + TOTAL_ACCESS_LOGS + TOTAL_SECURITY_EVENTS

\* C6 witness: a completed run with units, people, a document and an access
\* event.
C6_Witness ==
    /\ pc = "done"
    /\ TOTAL_DEPARTMENTS >= 2
    /\ TOTAL_EMPLOYEES >= 1
    /\ TOTAL_DOCUMENTS >= 1
    /\ TOTAL_ACCESS_LOGS >= 1

---------------------------------------------------------------------------
(* Properties of generate_departments beyond the catalog (SpecCatalog) *)

---------------------------------------------------------------------------
(* Properties of generate_security_events (SpecIncidents) *)

\* The people whose unit is the one named "Sicherheit".
SecurityStaff ==
    {e \in Range(employees) : UnitOf(e.department_id).name = "Sicherheit"}

\* C12: every generated incident's assigned_to is the id of a person whose
\* unit is the designated security unit, DEPT_014, named "Sicherheit".
C12_AssignedToSecurityUnit ==
    \A ev \in Range(Incidents) :
        \E e \in Range(employees) :
            /\ e.id = ev.assigned_to
            /\ e.department_id = DeptId(14)
            /\ e \in SecurityStaff

\* C12 witness: generate_security_events returned an incident in a run that
\* also has a person outside the security unit.
C12_Witness ==
    /\ Has("generate_security_events")
    /\ security_events # <<>>
    /\ \E e \in Range(employees) : e \notin SecurityStaff

---------------------------------------------------------------------------
(* Properties of the stages of generate_all_data (Spec) *)

\* The methods of a run in the order generate_all_data has them return;
\* the first five are its generation stages.
StageOrder ==
    <<"generate_departments", "generate_employees", "generate_documents",
      "generate_access_logs", "generate_security_events",
      "generate_document_permissions", "save_data_to_files", "generate_all_data">>

\* The 1-based place in StageOrder of the method the caller is in.
StageOf(at) ==
    CASE at \in {"call_departments", "departments"} -> 1
      [] at \in {"call_employees", "employees"} -> 2
      [] at \in {"call_documents", "documents"} -> 3
      [] at \in {"call_access_logs", "access_logs"} -> 4
      [] at \in {"call_security_events", "security_events"} -> 5
      [] at \in {"call_save", "call_permissions", "permissions"} -> 6
      [] at = "write" -> 7
      [] at = "statistics" -> 8
      [] at = "done" -> 9

\* A container is whole: empty until its method returns, at its target after.
Whole(method, container, total) ==
    IF Has(method) THEN Len(container) = total ELSE container = <<>>

AllWhole ==
    /\ Whole("generate_departments", departments, TOTAL_DEPARTMENTS)
    /\ Whole("generate_employees", employees, TOTAL_EMPLOYEES)
    /\ Whole("generate_documents", documents, TOTAL_DOCUMENTS)
    /\ Whole("generate_access_logs", access_logs, TOTAL_ACCESS_LOGS)
    /\ Whole("generate_security_events", security_events, TOTAL_SECURITY_EVENTS)

\* C14: a failure in a stage of generate_all_data aborts the run: nothing
\* runs after it (no later stage, no retry), no dataset file is written, no
\* statistics are returned, what earlier stages produced is kept as it was,
\* and no container ever holds a partially filled sequence.
C14_FailureAbortsRun ==
    /\ [](raised # NoneStr =>
            /\ pc = "error"
            /\ files = <<>>
            /\ stats = None
            /\ permissions = <<>>
            /\ building = <<>>
            /\ Len(returned) <= 5
            /\ returned = SubSeq(StageOrder, 1, Len(returned)))
    /\ []AllWhole
    /\ [][raised = NoneStr /\ (raised' # NoneStr => containers' = containers)]_vars

\* C14 witness: a run failed in a late stage, after documents and access
\* events had been produced.
C14_Witness ==
    /\ raised # NoneStr
    /\ documents # <<>>
    /\ access_logs # <<>>

\* C15: no stage of generate_all_data is entered before every earlier stage
\* has returned its complete sequence, and none after a later one: the
\* stages run one at a time in the fixed order units, people, documents,
\* access events, incidents, then the permission table, and the first file
\* is written only when all six sequences exist.
C15_StagesInDependencyOrder ==
    /\ returned = SubSeq(StageOrder, 1, Len(returned))
    /\ pc # "error" => Len(returned) = StageOf(pc) - 1
    /\ AllWhole
    /\ pc \in {"call_employees", "employees"} => Has("generate_departments")
    /\ pc \in {"call_documents", "documents"} =>
          Has("generate_departments") /\ Has("generate_employees")
    /\ pc \in {"call_access_logs", "access_logs", "call_security_events",
                "security_events", "call_permissions", "permissions"} =>
          Has("generate_employees") /\ Has("generate_documents")
    /\ (pc = "write" \/ files # <<>>) =>
          \A n \in 1..6 : Has(StageOrder[n])
    /\ (pc \in {"permissions", "write"} /\ Has("generate_document_permissions")) =>
          permissions = building

\* C15 witness: the first file is being written in a run that has a
\* document and its permission records.
C15_Witness ==
    /\ pc = "write"
    /\ Len(files) = 1
    /\ documents # <<>>
    /\ permissions # <<>>

\* C16: a stage changes nothing that an earlier stage produced, with one
\* exception: generate_employees sets manager_id on the unit records and
\* leaves their other fields alone.  The unit list changes otherwise only
\* when generate_departments assigns it, the people list only when
\* generate_employees assigns it, the document list only when
\* generate_documents assigns it.
C16_OnlyManagerBackfillMutates ==
    [][ /\ pc = "call_employees" =>
              /\ DOMAIN departments' = DOMAIN departments
              /\ \A k \in DOMAIN departments :
                    [departments'[k] EXCEPT !.manager_id = None]
                        = [departments[k] EXCEPT !.manager_id = None]
        /\ pc \notin {"departments", "call_employees"} => departments' = departments
        /\ pc # "employees" => employees' = employees
        /\ pc # "documents" => documents' = documents
        /\ pc # "access_logs" => access_logs' = access_logs
        /\ pc # "security_events" => security_events' = security_events
      ]_vars

\* C16 witness: the permission table has been generated in a run where
\* generate_employees had set the managers of two units and documents,
\* access events and incidents were generated since.
C16_Witness ==
    /\ Has("generate_document_permissions")
    /\ Len(departments) >= 2
    /\ \A u \in Range(departments) : u.manager_id # None
    /\ employees # <<>>
    /\ documents # <<>>
    /\ access_logs # <<>>

---------------------------------------------------------------------------
(* Properties of the unit classification rule (SpecCatalog) *)

\* The units generated so far.
Units == IF pc = "departments" THEN building ELSE departments

\* The unit names that denote a governance, security or legal function.
TopNames == {"Geschaeftsfuehrung", "Sicherheit", "Cybersecurity", "Recht_Compliance"}

\* C23 (as claimed): a unit whose name denotes a governance, security or
\* legal function has the top level; every other unit's level comes from
\* one fixed set of exactly two levels.
C23_TopOrOneTwoLevelSet ==
    \E pair \in SUBSET Range(clearance_levels) :
        /\ Cardinality(pair) = 2
        /\ \A u \in Range(Units) :
              IF u.name \in TopNames
              THEN u.security_level = "STRENG_GEHEIM"
              ELSE u.security_level \in pair

\* C23 (amended): the names of governance, security and legal functions
\* always get STRENG_GEHEIM; three further names (Finanzen_Controlling,
\* Personal_HR, Interne_Revision) always get GEHEIM and three others
\* (Forschung_Entwicklung, IT_Digitalisierung, Risikomanagement) always get
\* VERTRAULICH; only the remaining names draw from the two-level set
\* {INTERN, VERTRAULICH}.
C23_FixedLevelsByName ==
    /\ \A u \in Range(Units) :
          /\ u.name \in TopNames => u.security_level = "STRENG_GEHEIM"
          /\ u.name \in {"Finanzen_Controlling", "Personal_HR", "Interne_Revision"}
                => u.security_level = "GEHEIM"
          /\ u.name \in {"Forschung_Entwicklung", "IT_Digitalisierung",
                          "Risikomanagement"}
                => u.security_level = "VERTRAULICH"
          /\ u.security_level \in {"INTERN", "VERTRAULICH", "GEHEIM", "STRENG_GEHEIM"}
          /\ u.security_level = "INTERN" =>
                u.name \notin TopNames \cup
                    {"Finanzen_Controlling", "Personal_HR", "Interne_Revision",
                     "Forschung_Entwicklung", "IT_Digitalisierung", "Risikomanagement"}
    /\ Cardinality({name \in Range(department_names) :
                        DeptLevelChoices(name) = {"INTERN", "VERTRAULICH"}}) = 15

\* C23 witness: generate_departments returned all the units of the catalog,
\* with both levels of the two-level set drawn.
C23_Witness ==
    /\ Has("generate_departments")
    /\ Len(departments) = Len(department_names)
    /\ \E u, v \in Range(departments) :
          /\ u.name = "Produktion" /\ u.security_level = "INTERN"
          /\ v.name = "Vertrieb" /\ v.security_level = "VERTRAULICH"

---------------------------------------------------------------------------
(* Referential integrity of a full run (Spec) *)

UnitIds == {u.id : u \in Range(departments)}
PersonIds == {e.id : e \in Range(employees)}
AssetIds == {d.id : d \in Range(documents)}

\* C24 (as claimed): after a full run every reference field resolves to a
\* record generated in the run: person.department_id,
\* asset.owner_department_id and a non-null unit.parent_department name a
\* unit; unit.manager_id, asset.creator_employee_id, permission.employee_id,
\* access-event employee_id, incident employee_id and assigned_to name a
\* person; permission.document_id, access-event document_id and a non-null
\* incident target_resource name an asset.
C24_EveryReferenceResolves ==
    pc = "done" =>
        /\ \A e \in Range(employees) : e.department_id \in UnitIds
        /\ \A d \in Range(documents) :
              d.owner_department_id \in UnitIds /\ d.creator_employee_id \in PersonIds
        /\ \A k \in DOMAIN departments :
              \A parent \in ParentChoices(k - 1) : parent = None \/ parent \in UnitIds
        /\ \A u \in Range(departments) : u.manager_id \in PersonIds
        /\ \A p \in Range(permissions) :
              p.employee_id \in PersonIds /\ p.document_id \in AssetIds
        /\ \A a \in Range(access_logs) :
              a.employee_id \in PersonIds /\ a.document_id \in AssetIds
        /\ \A s \in Range(security_events) :
              /\ s.employee_id \in PersonIds
              /\ s.assigned_to \in PersonIds
              /\ s.target_resource = None \/ s.target_resource \in AssetIds

---------------------------------------------------------------------------
(* Multiplicity of permission records (SpecPerm) *)

\* The positions of the records for one (asset, person) pair.
RecordsOf(doc_id, emp_id) ==
    {k \in DOMAIN Grants :
        Grants[k].document_id = doc_id /\ Grants[k].employee_id = emp_id}

\* C26: for any (asset, person) pair the permission table holds at most two
\* records; it holds two only when the person is the asset's creator, and
\* then one of them is the SYSTEM entry; the unit-member and cross-unit
\* branches together grant at most once to a person for an asset.
C26_AtMostTwoRecordsPerPair ==
    \A d \in Range(documents) : \A e \in Range(employees) :
        LET recs == RecordsOf(d.id, e.id)
            granted == {k \in recs : Grants[k].granted_by # <<"SYSTEM">>}
        IN  /\ Cardinality(recs) <= 2
            /\ Cardinality(granted) <= 1
            /\ Cardinality(recs) = 2 => e.id = d.creator_employee_id
            /\ e.id # d.creator_employee_id => recs = granted

\* C26 witness: generate_document_permissions returned a table where the
\* creator has the SYSTEM entry and a grant, and somebody else has one
\* cross-unit grant.
C26_Witness ==
    /\ Has("generate_document_permissions")
    /\ \E d \in Range(documents) : \E e \in Range(employees) :
          /\ Cardinality(RecordsOf(d.id, d.creator_employee_id)) = 2
          /\ e.id # d.creator_employee_id
          /\ e.department_id # d.owner_department_id
          /\ Cardinality(RecordsOf(d.id, e.id)) = 1

---------------------------------------------------------------------------
(* Dependent fields of an access event (SpecAccess) *)

\* C27: in every access event the reason is null exactly when the result is
\* SUCCESS, duration_seconds is 0 exactly when the result is not SUCCESS,
\* and bytes_transferred is nonzero only when the action is DOWNLOAD and the
\* result is SUCCESS.
C27_DependentFieldsFollowResult ==
    \A a \in Range(Events) :
        /\ a.reason = NoneStr <=> a.result = "SUCCESS"
        /\ a.duration_seconds = 0 <=> a.result # "SUCCESS"
        /\ a.bytes_transferred # 0 => a.action = "DOWNLOAD" /\ a.result = "SUCCESS"

\* C27 witness: generate_access_logs returned a successful download with a
\* duration and a byte count.
C27_Witness ==
    /\ Has("generate_access_logs")
    /\ \E a \in Range(access_logs) :
          /\ a.action = "DOWNLOAD" /\ a.result = "SUCCESS" /\ a.reason = NoneStr
          /\ a.duration_seconds > 0 /\ a.bytes_transferred > 0

---------------------------------------------------------------------------
(* The reason INSUFFICIENT_PERMISSIONS (SpecAccess) *)

\* The roles exempt from the refusal of EDIT and DELETE.
ElevatedRoles == {"Abteilungsleiter", "Teamleiter", "Projektleiter"}

\* C28: an access event carries reason INSUFFICIENT_PERMISSIONS only if its
\* action is EDIT or DELETE, the actor's clearance is at least the asset's
\* classification, and the actor is neither the asset's creator nor in one
\* of the elevated roles (Abteilungsleiter, Teamleiter, Projektleiter);
\* every such event has result ACCESS_DENIED.
C28_InsufficientPermissionsOnlyForMutate ==
    \A ev \in Range(Events) :
        ev.reason = "INSUFFICIENT_PERMISSIONS" =>
            LET actor == PersonOf(ev.employee_id)
                asset == AssetOf(ev.document_id)
            IN  /\ ev.action \in {"EDIT", "DELETE"}
                /\ LevelIndex(actor.security_clearance)
                      >= LevelIndex(asset.security_classification)
                /\ actor.id # asset.creator_employee_id
                /\ actor.role \notin ElevatedRoles
                /\ ev.result = "ACCESS_DENIED"

\* C28 witness: generate_access_logs returned an event of a Senior_Spezialist with reason
\* INSUFFICIENT_PERMISSIONS, in a run that also has a person whose clearance
\* is below the document's classification.
C28_Witness ==
    /\ Has("generate_access_logs")
    /\ \E ev \in Range(access_logs) :
          /\ ev.reason = "INSUFFICIENT_PERMISSIONS"
          /\ PersonOf(ev.employee_id).role = "Senior_Spezialist"
    /\ \E e \in Range(employees) : \E d \in Range(documents) : ~Eligible(e, d)

---------------------------------------------------------------------------
(* The lowest level (SpecLow) *)

\* The people whose clearance is the lowest level.
PublicPeople == {e \in Range(employees) : e.security_clearance = "OEFFENTLICH"}

\* C29: no unit and no asset is classified OEFFENTLICH (PUBLIC), whatever
\* its name or type: every unit and asset classification is INTERN or
\* higher.  So a person with OEFFENTLICH clearance never appears in a
\* SUCCESS access event, and neither the unit-member nor the cross-unit
\* branch of generate_document_permissions can emit a record for them:
\* the SYSTEM creator entry is the only permission they can receive.
C29_NothingPublic ==
    /\ \A name \in Range(department_names) :
          "OEFFENTLICH" \notin DeptLevelChoices(name)
    /\ \A doc_type \in Range(document_types) :
          "OEFFENTLICH" \notin DocLevelChoices(doc_type)
    /\ \A u \in Range(departments) : LevelIndex(u.security_level) >= LevelIndex("INTERN")
    /\ \A d \in Range(Assets) :
          LevelIndex(d.security_classification) >= LevelIndex("INTERN")
    /\ \A ev \in Range(Events) :
          ev.result = "SUCCESS" => PersonOf(ev.employee_id) \notin PublicPeople
    /\ \A e \in PublicPeople : \A d \in Range(Assets) :
          /\ AccessGrantedChoices(e, d) = {FALSE}
          /\ MemberGrantChoices(e, d) = {<<>>}
          /\ CrossGrants(<<e>>, d) = <<>>

\* C29 witness: generate_access_logs returned an event of a person with
\* OEFFENTLICH clearance, who created the INTERN document it is about.
C29_Witness ==
    /\ Has("generate_access_logs")
    /\ \E ev \in Range(access_logs) :
          /\ PersonOf(ev.employee_id) \in PublicPeople
          /\ AssetOf(ev.document_id).creator_employee_id = ev.employee_id
          /\ AssetOf(ev.document_id).security_classification = "INTERN"
          /\ ev.result = "ACCESS_DENIED"

---------------------------------------------------------------------------
(* Batches of load_data_to_database (SpecLoad) *)

\* The batches posted for one table, in the order they were sent.
BatchesOf(table) ==
    LET sent == SelectSeq(posted, LAMBDA p : p.table = table)
    IN  [k \in DOMAIN sent |-> sent[k].data]

RECURSIVE Flatten(_)
Flatten(batches) ==
    IF batches = <<>> THEN <<>> ELSE Head(batches) \o Flatten(Tail(batches))

\* The records of the k-th opened file that the loop has reached so far.
Reached(k) ==
    IF k = Len(opened) /\ load_pc = "batches"
    THEN SubSeq(opened[k].data, 1, Min(batch_start, Len(opened[k].data)))
    ELSE opened[k].data

\* Every file opened so far was handed over in consecutive batches of
\* BATCH_SIZE records (only the last one of a finished file may be
\* shorter), each record once and in file order, whatever the responses
\* were; the tables follow the order of the datasets list.
BatchesCoverFiles ==
    /\ \A k \in DOMAIN opened :
          /\ opened[k].dataset = dataset_names[k]
          /\ LET batches == BatchesOf(opened[k].dataset)
             IN  /\ Flatten(batches) = Reached(k)
                 /\ \A b \in DOMAIN batches :
                       /\ Len(batches[b]) \in 1..BATCH_SIZE
                       /\ b < Len(batches) => Len(batches[b]) = BATCH_SIZE
    /\ \A n \in DOMAIN posted :
          /\ \E k \in DOMAIN opened : opened[k].dataset = posted[n].table
          /\ \A m \in DOMAIN posted :
                m < n => \E a, b \in DOMAIN opened :
                            /\ a <= b
                            /\ opened[a].dataset = posted[m].table
                            /\ opened[b].dataset = posted[n].table

\* True is returned exactly when every file was read and every batch got 200.
TrueIffAllLoaded ==
    load_result = "True" <=>
        /\ Len(opened) = Len(dataset_names)
        /\ \A k \in DOMAIN opened : opened[k].read
        /\ failed_batches = 0

\* C25 (as claimed): load_data_to_database hands each dataset to the server
\* in consecutive batches of BATCH_SIZE records, every record exactly once
\* and in order; a failed batch or a missing file is not retried and does
\* not stop the remaining batches or datasets: when the method has
\* returned, every dataset was opened and every record read was sent; and
\* it returns True if and only if every file was read and every batch got
\* HTTP 200.
C25_EveryDatasetInBatches ==
    /\ BatchesCoverFiles
    /\ load_pc = "load_returned" =>
          /\ Len(opened) = Len(dataset_names)
          /\ TrueIffAllLoaded

\* C25 (amended): the same, for a loader that has an API key; without one
\* the method returns False at once, opens no file and sends nothing.
C25_EveryDatasetInBatchesGivenKey ==
    /\ BatchesCoverFiles
    /\ load_pc = "load_returned" =>
          /\ load_result \in {"True", "False"}
          /\ TrueIffAllLoaded
          /\ IF api_key = NoneStr
             THEN load_result = "False" /\ opened = <<>> /\ posted = <<>>
             ELSE Len(opened) = Len(dataset_names)
    /\ load_pc # "load_returned" => load_result = NoneStr

\* C25 witness: the method returned False with an API key, after the first
\* file could not be read, a later file of BATCH_SIZE + 1 records went out
\* as a full and a shorter batch, and every one of at least three batches
\* failed (so failed batches were followed by further batches and datasets).
C25_Witness ==
    /\ load_pc = "load_returned"
    /\ api_key # NoneStr
    /\ load_result = "False"
    /\ Len(posted) >= 3
    /\ failed_batches = Len(posted)
    /\ ~opened[1].read
    /\ \E k \in DOMAIN opened :
          /\ Len(opened[k].data) = BATCH_SIZE + 1
          /\ Len(BatchesOf(opened[k].dataset)) = 2

---------------------------------------------------------------------------
(* Steps of run_full_suite (SpecSuite) *)

\* C30: run_full_suite starts its steps strictly in the order generate
\* data, load data, query tests, performance tests, each after every
\* earlier step reported success; as soon as a step reports failure it
\* returns exit code 1 without starting any later step, and it returns 0
\* only after all four steps reported success.
C30_StepsInOrderUntilFailure ==
    /\ started = SubSeq(step_order, 1, Len(started))
    /\ Len(reported) <= Len(started)
    /\ Len(started) <= Len(reported) + 1
    /\ \A k \in DOMAIN reported : reported[k].step = started[k]
    /\ \A k \in DOMAIN started : \A j \in 1..(k - 1) : reported[j].result
    /\ \A k \in DOMAIN reported :
          ~reported[k].result =>
             /\ k = Len(started)
             /\ exit_code = <<1>>
             /\ suite_pc = "exited"
    /\ exit_code = <<1>> => reported # <<>> /\ ~reported[Len(reported)].result
    /\ exit_code = <<0>> =>
          /\ Len(reported) = Len(step_order)
          /\ \A k \in DOMAIN reported : reported[k].result
    /\ exit_code \in {None, <<0>>, <<1>>}

\* C30 witness: run_full_suite returned 1 when the query tests failed, after
\* the data was generated and the load step reported success.
C30_Witness ==
    /\ exit_code = <<1>>
    /\ Len(started) = 3
    /\ reported[1].path = "generated"
    /\ reported[2].result
    /\ reported[3].step = "query_test_step" /\ ~reported[3].result

=============================================================================
